---- MODULE Spec2Model ----
(***************************************************************************)
(* Model of voice-transcribe.c: the single-instance toggle over the pid    *)
(* file, and one recording session per daemon (main thread, recording      *)
(* thread, monitor thread) up to transcription and cleanup.                *)
(*                                                                         *)
(* Invocations are issued one after another (a key binding run from a      *)
(* shell): invocation i+1 starts once the foreground process of invocation *)
(* i has returned.  The daemon forked by an invocation keeps running       *)
(* concurrently with every later invocation.                               *)
(*                                                                         *)
(* Spec takes update_status as one step.  SpecStatus follows one daemon    *)
(* with update_status taken one stdio call at a time; SpecScan runs the    *)
(* JSON scan of transcribe_audio on every transcript up to MaxText long.   *)
(* SpecBuffer runs init_audio_buffer and append_audio_buffer on a buffer;  *)
(* SpecRace lets invocations start at any time, up to the capture loop.    *)
(***************************************************************************)
EXTENDS Integers, Sequences, FiniteSets, TLC

\* ------------------------------------------------------------------ bounds
NInv == 2               \* invocations of the program
MaxFrames == 2          \* successful frame reads per session
MaxOver == 1            \* seconds the clock may run past MAX_RECORDING_TIME
MaxText == 3            \* characters of a transcript (SpecScan)
MaxInitial == 3         \* largest initial capacity of a buffer (SpecBuffer)
MaxChunk == 5           \* largest size of one append (SpecBuffer)
MaxAppends == 3         \* appends to one buffer (SpecBuffer)

\* ------------------------------------------------------- program constants
SAMPLE_RATE == 16000
BUFFER_SIZE == 4096
MAX_RECORDING_TIME == 300

Inv == 1..NInv
\* fork() gives the daemon of invocation i the process id i
ChildPid(i) == i
\* a process id that names no process
DeadPid == NInv + 1
\* values an uninitialized pid_t may hold after fscanf matched nothing
GarbagePids == 0..DeadPid

\* a C pointer is <<>> (NULL) or <<x>> (points to x)
NULL == <<>>
Ptr(x) == <<x>>
Signals == {"SIGINT", "SIGTERM", "SIGUSR1"}

VARIABLES
    pidfile,            \* PIDFILE: [exists, content]
    ppc,                \* position of the invoked (foreground) process in main
    existing_pid,       \* main's existing_pid / check_running's pid
    check_result,       \* how check_running ended: none, absent, live, stale
    pf,                 \* the parent's FILE *pf on PIDFILE: closed, linked, detached
    exit_code,          \* exit status of the foreground process (-1 while it runs)
    sent,               \* signals the foreground process has sent: <<pid, sig>>
    g_api_key,          \* TRUE when load_env found a key
    g_status_file,      \* TRUE when fopen(STATUSFILE) succeeded
    mpc,                \* position of the daemon's main thread
    rpc,                \* position of recording_thread
    kpc,                \* position of monitor_thread
    g_stop_recording,   \* the stop flag, 0 or 1
    signalled,          \* TRUE once a signal was delivered to the daemon
    g_audio_buffer,     \* [data, size, capacity]
    capture_handle,     \* TRUE while the ALSA device is open
    elapsed,            \* time(NULL) - g_record_start_time
    status_file,        \* the record STATUSFILE holds (<<>>: nothing written)
    published,          \* the status strings written, in order (repeats merged)
    viz_launched,       \* TRUE once the visualizer was launched
    uploads,            \* calls of curl_easy_perform
    transcription,      \* main's char *transcription (NULL or the text)
    clipboard,          \* the char * arguments of copy_to_clipboard, in order
    child_exit,         \* exit status of the daemon (-1 while it runs)
    curl,               \* what curl_easy_perform left: res, HTTP status, body
    frames,             \* recording_thread's frames after the last read
    \* update_status call by call (SpecStatus)
    stream_buf,         \* bytes g_status_file holds that were not written yet
    fd_offset,          \* file offset of g_status_file's descriptor
    ucall,              \* per thread: the update_status call it is inside
    \* the JSON scan of transcribe_audio on its own (SpecScan)
    scan_pc,            \* idle, escaped, received, scanned
    text,               \* the transcript the backend produced
    response,           \* response.data: the body received
    scan_result,        \* *result: the text extracted (NULL: none)
    \* an AudioBuffer on its own (SpecBuffer)
    buffer,             \* the AudioBuffer: [data, size, capacity]
    buffer_initial,     \* the initial_size it was initialised with
    appended            \* the appends so far: [size, stored]

vars == <<pidfile, ppc, existing_pid, check_result, pf, exit_code, sent, g_api_key,
          g_status_file, mpc, rpc, kpc, g_stop_recording, signalled,
          g_audio_buffer, capture_handle, elapsed, status_file, published,
          viz_launched, uploads, transcription, clipboard, child_exit,
          curl, frames, stream_buf, fd_offset, ucall, scan_pc, text, response, scan_result,
          buffer, buffer_initial, appended>>

streamVars == <<stream_buf, fd_offset, ucall>>
scanVars == <<scan_pc, text, response, scan_result>>
bufferVars == <<buffer, buffer_initial, appended>>
\* what only the finer-grained specifications move
otherVars == <<streamVars, scanVars, bufferVars>>

parentVars == <<ppc, existing_pid, check_result, pf, exit_code, sent, g_api_key, g_status_file>>
threadVars == <<mpc, rpc, kpc>>
sessionVars == <<g_audio_buffer, capture_handle, elapsed, viz_launched,
                 uploads, transcription, clipboard, child_exit, curl, frames>>
statusVars == <<status_file, published>>
signalVars == <<g_stop_recording, signalled>>

NoFile == [exists |-> FALSE, content |-> <<>>]
\* static AudioBuffer g_audio_buffer = {0}
NoBuffer == [data |-> NULL, size |-> 0, capacity |-> 0]

\* the threads of a daemon
Threads == {"main", "record", "monitor"}
\* the thread is not inside update_status
NoCall == [step |-> "out", status |-> "", level |-> "", ret |-> ""]

\* curl_easy_perform was not called
NoResponse == [res |-> "none", http |-> 0, data |-> NULL]

\* the daemon of invocation i is a running process
Running(i) == mpc[i] \notin {"none", "exited", "crashed"}
\* kill(pid, 0) == 0: pid 0 names the caller's process group
Alive(pid) == pid = 0 \/ (pid \in Inv /\ Running(pid))

\* no invocation yet
InitProgram ==
    /\ pidfile = NoFile
    /\ ppc = [i \in Inv |-> "idle"]
    /\ existing_pid = [i \in Inv |-> 0]
    /\ check_result = [i \in Inv |-> "none"]
    /\ pf = [i \in Inv |-> "closed"]
    /\ exit_code = [i \in Inv |-> -1]
    /\ sent = [i \in Inv |-> <<>>]
    /\ g_api_key = [i \in Inv |-> FALSE]
    /\ g_status_file = [i \in Inv |-> FALSE]
    /\ mpc = [i \in Inv |-> "none"]
    /\ rpc = [i \in Inv |-> "none"]
    /\ kpc = [i \in Inv |-> "none"]
    /\ g_stop_recording = [i \in Inv |-> 0]
    /\ signalled = [i \in Inv |-> FALSE]
    /\ g_audio_buffer = [i \in Inv |-> NoBuffer]
    /\ capture_handle = [i \in Inv |-> FALSE]
    /\ elapsed = [i \in Inv |-> 0]
    /\ status_file = [i \in Inv |-> <<>>]
    /\ published = [i \in Inv |-> <<>>]
    /\ viz_launched = [i \in Inv |-> FALSE]
    /\ uploads = [i \in Inv |-> 0]
    /\ transcription = [i \in Inv |-> NULL]
    /\ clipboard = [i \in Inv |-> <<>>]
    /\ child_exit = [i \in Inv |-> -1]
    /\ curl = [i \in Inv |-> NoResponse]
    /\ frames = [i \in Inv |-> 0]
    /\ stream_buf = [i \in Inv |-> <<>>]
    /\ fd_offset = [i \in Inv |-> 0]
    /\ ucall = [i \in Inv |-> [t \in Threads |-> NoCall]]
    /\ buffer = NoBuffer
    /\ buffer_initial = 0
    /\ appended = <<>>

Init ==
    /\ InitProgram
    /\ scan_pc = "idle"
    /\ text = <<>>
    /\ response = NULL
    /\ scan_result = NULL

\* Bookkeeping: once both processes of an invocation have ended, their record
\* is dropped (Reap) before any other process moves
Reapable(i) == ppc[i] = "exited" /\ mpc[i] \in {"none", "exited", "crashed"}
Quiet == \A j \in Inv : ~Reapable(j)

\* ------------------------------------------------------------ signal_handler
\* mutant of signal_handler: only the toggle signal sets the stop flag
signal_handler_toggleOnly(i, sig) ==
    IF sig = "SIGUSR1"
    THEN g_stop_recording' = [g_stop_recording EXCEPT ![i] = 1]
    ELSE UNCHANGED g_stop_recording

\* signal_handler(sig): every handled signal sets the stop flag
signal_handler(i, sig) ==
    g_stop_recording' = [g_stop_recording EXCEPT ![i] = 1]

\* kill(pid, sig) for a handled signal: the handler runs in the daemon that
\* pid names; a pid naming no process gets nothing (ESRCH)
Deliver(pid, sig) ==
    IF pid \in Inv /\ Running(pid)
    THEN /\ signal_handler(pid, sig)
         /\ signalled' = [signalled EXCEPT ![pid] = TRUE]
    ELSE UNCHANGED signalVars

\* SIGINT or SIGTERM (the user, the session manager) or a SIGUSR1 from
\* outside; a signal after the first finds the flag set and changes nothing
EnvSignal(i) ==
    /\ Quiet
    /\ UNCHANGED otherVars
    /\ Running(i)
    /\ ~signalled[i]
    /\ \E sig \in Signals : Deliver(ChildPid(i), sig)
    /\ UNCHANGED <<pidfile, parentVars, threadVars, sessionVars, statusVars>>

\* ------------------------------------------------- check_running and main
\* a new invocation: the user runs the program again once the previous
\* foreground process has returned
Start(i) ==
    /\ Quiet
    /\ UNCHANGED otherVars
    /\ ppc[i] = "idle"
    /\ IF i = 1 THEN TRUE ELSE ppc[i - 1] \in {"exited", "gone"}
    /\ ppc' = [ppc EXCEPT ![i] = "check_open"]
    /\ UNCHANGED <<pidfile, existing_pid, check_result, pf, exit_code, sent, g_api_key,
                   g_status_file, threadVars, signalVars, sessionVars, statusVars>>

\* check_running: fopen(PIDFILE, "r"); if (!pf) return 0; fscanf; fclose
CheckOpen(i) ==
    /\ Quiet
    /\ UNCHANGED otherVars
    /\ ppc[i] = "check_open"
    /\ IF ~pidfile.exists
       THEN /\ existing_pid' = [existing_pid EXCEPT ![i] = 0]
            /\ check_result' = [check_result EXCEPT ![i] = "absent"]
            /\ ppc' = [ppc EXCEPT ![i] = "open_status"]
       ELSE /\ \E pid \in (IF pidfile.content = <<>> THEN GarbagePids
                           ELSE {pidfile.content[1]}) :
                 existing_pid' = [existing_pid EXCEPT ![i] = pid]
            /\ ppc' = [ppc EXCEPT ![i] = "probe"]
            /\ UNCHANGED check_result
    /\ UNCHANGED <<pidfile, pf, exit_code, sent, g_api_key, g_status_file,
                   threadVars, signalVars, sessionVars, statusVars>>

\* check_running: if (kill(pid, 0) == 0) return pid;
Probe(i) ==
    /\ Quiet
    /\ UNCHANGED otherVars
    /\ ppc[i] = "probe"
    /\ ppc' = [ppc EXCEPT ![i] = IF Alive(existing_pid[i]) THEN "decide"
                                  ELSE "unlink_stale"]
    /\ check_result' = [check_result EXCEPT
                          ![i] = IF Alive(existing_pid[i]) THEN "live" ELSE "stale"]
    /\ UNCHANGED <<pidfile, existing_pid, pf, exit_code, sent, g_api_key,
                   g_status_file, threadVars, signalVars, sessionVars, statusVars>>

\* mutant of UnlinkStale: the stale file is left in place
UnlinkStale_keep(i) ==
    /\ Quiet
    /\ UNCHANGED otherVars
    /\ ppc[i] = "unlink_stale"
    /\ existing_pid' = [existing_pid EXCEPT ![i] = 0]
    /\ ppc' = [ppc EXCEPT ![i] = "decide"]
    /\ UNCHANGED <<pidfile, pf, check_result, exit_code, sent, g_api_key,
                   g_status_file, threadVars, signalVars, sessionVars, statusVars>>

\* check_running: unlink(PIDFILE); return 0;
UnlinkStale(i) ==
    /\ Quiet
    /\ UNCHANGED otherVars
    /\ ppc[i] = "unlink_stale"
    /\ pidfile' = NoFile
    /\ pf' = [j \in Inv |-> IF pf[j] = "linked" THEN "detached" ELSE pf[j]]
    /\ existing_pid' = [existing_pid EXCEPT ![i] = 0]
    /\ ppc' = [ppc EXCEPT ![i] = "decide"]
    /\ UNCHANGED <<check_result, exit_code, sent, g_api_key, g_status_file,
                   threadVars, signalVars, sessionVars, statusVars>>

\* mutant of FoundRunning: the comparison reversed
FoundRunning_reversed(existing) == existing < 0

\* main: if (existing_pid > 0)
FoundRunning(existing) == existing > 0

\* main: if (existing_pid > 0) { kill(existing_pid, SIGUSR1); return 0; }
Decide(i) ==
    /\ Quiet
    /\ UNCHANGED otherVars
    /\ ppc[i] = "decide"
    /\ IF FoundRunning(existing_pid[i])
       THEN /\ Deliver(existing_pid[i], "SIGUSR1")
            /\ sent' = [sent EXCEPT ![i] = Append(@, <<existing_pid[i], "SIGUSR1">>)]
            /\ exit_code' = [exit_code EXCEPT ![i] = 0]
            /\ ppc' = [ppc EXCEPT ![i] = "exited"]
       ELSE /\ ppc' = [ppc EXCEPT ![i] = "open_status"]
            /\ UNCHANGED <<signalVars, sent, exit_code>>
    /\ UNCHANGED <<pidfile, existing_pid, check_result, pf, g_api_key, g_status_file,
                   threadVars, sessionVars, statusVars>>

\* main: g_status_file = fopen(STATUSFILE, "w"); a failure is only reported.
\* Then the three signal() calls.
OpenStatus(i) ==
    /\ Quiet
    /\ UNCHANGED otherVars
    /\ ppc[i] = "open_status"
    /\ \E ok \in BOOLEAN : g_status_file' = [g_status_file EXCEPT ![i] = ok]
    /\ ppc' = [ppc EXCEPT ![i] = "load_env"]
    /\ UNCHANGED <<pidfile, existing_pid, check_result, pf, exit_code, sent, g_api_key,
                   threadVars, signalVars, sessionVars, statusVars>>

\* main: load_env(); if (!g_api_key) { unlink(PIDFILE); fclose; return 1; }
LoadEnv(i) ==
    /\ Quiet
    /\ UNCHANGED otherVars
    /\ ppc[i] = "load_env"
    /\ \E key \in BOOLEAN :
         /\ g_api_key' = [g_api_key EXCEPT ![i] = key]
         /\ IF key
            THEN /\ ppc' = [ppc EXCEPT ![i] = "fork"]
                 /\ UNCHANGED <<pidfile, pf, exit_code, g_status_file>>
            ELSE /\ pidfile' = NoFile
                 /\ pf' = [j \in Inv |-> IF pf[j] = "linked" THEN "detached" ELSE pf[j]]
                 /\ g_status_file' = [g_status_file EXCEPT ![i] = FALSE]
                 /\ exit_code' = [exit_code EXCEPT ![i] = 1]
                 /\ ppc' = [ppc EXCEPT ![i] = "exited"]
    /\ UNCHANGED <<existing_pid, check_result, sent, threadVars, signalVars,
                   sessionVars, statusVars>>

\* main: child_pid = fork(); the child continues in main with its own copy of
\* the globals; child_pid < 0: return 1
Fork(i) ==
    /\ Quiet
    /\ UNCHANGED otherVars
    /\ ppc[i] = "fork"
    /\ \E ok \in BOOLEAN :
         IF ok
         THEN /\ mpc' = [mpc EXCEPT ![i] = "m_start"]
              /\ ppc' = [ppc EXCEPT ![i] = "pf_open"]
              /\ UNCHANGED exit_code
         ELSE /\ exit_code' = [exit_code EXCEPT ![i] = 1]
              /\ ppc' = [ppc EXCEPT ![i] = "exited"]
              /\ UNCHANGED mpc
    /\ UNCHANGED <<pidfile, existing_pid, check_result, pf, sent, g_api_key, g_status_file,
                   rpc, kpc, signalVars, sessionVars, statusVars>>

\* parent: FILE *pf = fopen(PIDFILE, "w"): the file exists, empty
ParentOpenPidfile(i) ==
    /\ Quiet
    /\ UNCHANGED otherVars
    /\ ppc[i] = "pf_open"
    /\ pidfile' = [exists |-> TRUE, content |-> <<>>]
    /\ pf' = [pf EXCEPT ![i] = "linked"]
    /\ ppc' = [ppc EXCEPT ![i] = "pf_write"]
    /\ UNCHANGED <<existing_pid, check_result, exit_code, sent, g_api_key, g_status_file,
                   threadVars, signalVars, sessionVars, statusVars>>

\* parent: fprintf(pf, "%d\n", child_pid); fclose(pf); return 0.  The data
\* reaches the file the handle was opened on, which an unlink since then has
\* taken out of the directory
ParentWritePidfile(i) ==
    /\ Quiet
    /\ UNCHANGED otherVars
    /\ ppc[i] = "pf_write"
    /\ pidfile' = IF pf[i] = "linked"
                  THEN [exists |-> TRUE, content |-> <<ChildPid(i)>>]
                  ELSE pidfile
    /\ pf' = [pf EXCEPT ![i] = "closed"]
    /\ exit_code' = [exit_code EXCEPT ![i] = 0]
    /\ ppc' = [ppc EXCEPT ![i] = "exited"]
    /\ UNCHANGED <<existing_pid, check_result, sent, g_api_key, g_status_file,
                   threadVars, signalVars, sessionVars, statusVars>>

\* ------------------------------------------------------------- update_status
\* "%02ld"
Pad2(n) == IF n < 10 THEN "0" \o ToString(n) ELSE ToString(n)

\* fprintf(g_status_file, "%s|%.2f|%02ld:%02ld\n", status, level, elapsed / 60,
\* elapsed % 60), as its fields and separators
FormatRecord(status, level, el) ==
    <<status, "|", level, "|", Pad2(el \div 60), ":", Pad2(el % 60)>>

\* what a reader takes as STATUS: the text before the first '|'
StatusField(record) ==
    LET bars == {k \in 1..Len(record) : record[k] = "|"}
        first == IF bars = {} THEN Len(record) + 1
                 ELSE CHOOSE k \in bars : \A j \in bars : k <= j
    IN  SubSeq(record, 1, first - 1)

\* update_status(status, level): rewrite the record when the file is open
update_status(i, status, level) ==
    IF g_status_file[i]
    THEN /\ status_file' = [status_file EXCEPT
                              ![i] = FormatRecord(status, level, elapsed[i])]
         /\ published' = [published EXCEPT
                              ![i] = IF @ # <<>> /\ @[Len(@)] = status
                                     THEN @ ELSE Append(@, status)]
    ELSE UNCHANGED statusVars

\* ------------------------------------------------------------ audio buffer
\* init_audio_buffer(buf, initial_size)
init_audio_buffer(initial_size) ==
    [data |-> Ptr("heap"), size |-> 0, capacity |-> initial_size]

\* mutant of GrowCapacity: one doubling, no loop
GrowCapacity_once(new_capacity, needed) == new_capacity

\* the while loop of append_audio_buffer: double until the data fits
RECURSIVE GrowCapacity(_, _)
GrowCapacity(new_capacity, needed) ==
    IF new_capacity < needed THEN GrowCapacity(new_capacity * 2, needed)
    ELSE new_capacity

\* append_audio_buffer(buf, data, size); realloc_ok = FALSE: realloc returned
\* NULL and the append is dropped
append_audio_buffer(buf, size, realloc_ok) ==
    IF buf.size + size > buf.capacity
    THEN IF realloc_ok
         THEN [buf EXCEPT !.capacity = GrowCapacity(buf.capacity * 2, buf.size + size),
                          !.size = buf.size + size]
         ELSE buf
    ELSE [buf EXCEPT !.size = buf.size + size]

\* free_audio_buffer(buf)
free_audio_buffer(buf) == [data |-> NULL, size |-> 0, capacity |-> 0]

\* ---------------------------------------------------------- transcribe_audio
\* "\"text\":\""
TextMarker == <<"\"", "t", "e", "x", "t", "\"", ":", "\"">>

\* strstr(hay, needle): index of the first occurrence, 0 when there is none
StrStr(hay, needle) ==
    LET hits == {k \in 1..(Len(hay) - Len(needle) + 1) :
                    SubSeq(hay, k, k + Len(needle) - 1) = needle}
    IN  IF hits = {} THEN 0 ELSE CHOOSE k \in hits : \A j \in hits : k <= j

\* strchr(s + from - 1, c): index of the first c at or after from, 0 when none
StrChr(s, from, c) ==
    LET hits == {k \in from..Len(s) : s[k] = c}
    IN  IF hits = {} THEN 0 ELSE CHOOSE k \in hits : \A j \in hits : k <= j

\* the switch of the unescape loop
UnescapeChar(c) ==
    CASE c = "n" -> "\n"
      [] c = "t" -> "\t"
      [] c = "r" -> "\r"
      [] OTHER -> c

\* the unescape loop: while (*src) { if (*src == '\\' && *(src + 1)) ... }
RECURSIVE Unescape(_)
Unescape(s) ==
    IF s = <<>> THEN <<>>
    ELSE IF s[1] = "\\" /\ Len(s) >= 2
         THEN <<UnescapeChar(s[2])>> \o Unescape(SubSeq(s, 3, Len(s)))
         ELSE <<s[1]>> \o Unescape(SubSeq(s, 2, Len(s)))

\* the JSON scan of transcribe_audio on a non-NULL response body: *result,
\* which main initialised to NULL
ExtractText(body) ==
    LET text_start == StrStr(body, TextMarker)
    IN  IF text_start = 0 THEN NULL
        ELSE LET from == text_start + 8
                 text_end == StrChr(body, from, "\"")
             IN  IF text_end = 0 THEN NULL
                 ELSE Ptr(Unescape(SubSeq(body, from, text_end - 1)))

\* a response body {"text":"<payload>"}
TextBody(payload) == <<"{">> \o TextMarker \o payload \o <<"\"", "}">>

\* what curl_easy_perform left behind: its CURLcode, the HTTP status and the
\* body write_callback collected (NULL when no byte arrived)
Responses ==
    { [res |-> "CURLE_COULDNT_CONNECT", http |-> 0, data |-> NULL],
      [res |-> "CURLE_OK", http |-> 200, data |-> NULL],
      [res |-> "CURLE_OK", http |-> 200, data |-> Ptr(TextBody(<<"h", "i">>))],
      [res |-> "CURLE_OK", http |-> 200, data |-> Ptr(TextBody(<<>>))],
      [res |-> "CURLE_OK", http |-> 200, data |-> Ptr(<<"{", "}">>)],
      [res |-> "CURLE_OK", http |-> 200,
       data |-> Ptr(<<"{">> \o TextMarker \o <<"h", "i">>)],
      [res |-> "CURLE_OK", http |-> 401,
       data |-> Ptr(<<"{", "\"", "e", "r", "r", "o", "r", "\"", ":", "1", "}">>)],
      [res |-> "CURLE_OK", http |-> 500, data |-> Ptr(TextBody(<<"n", "o">>))] }

\* --------------------------------------------------- main, the daemon child
\* child: setsid(); streams to /dev/null; g_record_start_time = time(NULL);
\* update_status("CONNECTING", 0.0)
MainConnecting(i) ==
    /\ Quiet
    /\ UNCHANGED otherVars
    /\ mpc[i] = "m_start"
    /\ elapsed' = [elapsed EXCEPT ![i] = 0]
    /\ update_status(i, "CONNECTING", "0.00")
    /\ mpc' = [mpc EXCEPT ![i] = "m_create_record"]
    /\ UNCHANGED <<pidfile, parentVars, rpc, kpc, signalVars, g_audio_buffer,
                   capture_handle, viz_launched, uploads, transcription,
                   clipboard, child_exit, curl, frames>>

\* pthread_create(&g_record_thread, NULL, recording_thread, NULL)
MainCreateRecord(i) ==
    /\ Quiet
    /\ UNCHANGED otherVars
    /\ mpc[i] = "m_create_record"
    /\ rpc' = [rpc EXCEPT ![i] = "r_open"]
    /\ mpc' = [mpc EXCEPT ![i] = "m_create_monitor"]
    /\ UNCHANGED <<pidfile, parentVars, kpc, signalVars, sessionVars, statusVars>>

\* pthread_create(&g_monitor_thread, NULL, monitor_thread, NULL)
MainCreateMonitor(i) ==
    /\ Quiet
    /\ UNCHANGED otherVars
    /\ mpc[i] = "m_create_monitor"
    /\ kpc' = [kpc EXCEPT ![i] = "k_launch"]
    /\ mpc' = [mpc EXCEPT ![i] = "m_join_record"]
    /\ UNCHANGED <<pidfile, parentVars, rpc, signalVars, sessionVars, statusVars>>

\* mutant of MainJoinRecord: main does not wait for the thread
MainJoinRecord_noWait(i) ==
    /\ Quiet
    /\ UNCHANGED otherVars
    /\ mpc[i] = "m_join_record"
    /\ mpc' = [mpc EXCEPT ![i] = "m_processing"]
    /\ UNCHANGED <<pidfile, parentVars, rpc, kpc, signalVars, sessionVars, statusVars>>

\* pthread_join(g_record_thread, NULL)
MainJoinRecord(i) ==
    /\ Quiet
    /\ UNCHANGED otherVars
    /\ mpc[i] = "m_join_record"
    /\ rpc[i] = "done"
    /\ mpc' = [mpc EXCEPT ![i] = "m_processing"]
    /\ UNCHANGED <<pidfile, parentVars, rpc, kpc, signalVars, sessionVars, statusVars>>

\* update_status("PROCESSING", 0.0); usleep(200000)
MainProcessing(i) ==
    /\ Quiet
    /\ UNCHANGED otherVars
    /\ mpc[i] = "m_processing"
    /\ update_status(i, "PROCESSING", "0.00")
    /\ mpc' = [mpc EXCEPT ![i] = "m_set_stop"]
    /\ UNCHANGED <<pidfile, parentVars, rpc, kpc, signalVars, sessionVars>>

\* g_stop_recording = 1
MainSetStop(i) ==
    /\ Quiet
    /\ UNCHANGED otherVars
    /\ mpc[i] = "m_set_stop"
    /\ g_stop_recording' = [g_stop_recording EXCEPT ![i] = 1]
    /\ mpc' = [mpc EXCEPT ![i] = "m_join_monitor"]
    /\ UNCHANGED <<pidfile, parentVars, rpc, kpc, signalled, sessionVars, statusVars>>

\* mutant of MainJoinMonitor: main goes on without waiting
MainJoinMonitor_noWait(i) ==
    /\ Quiet
    /\ UNCHANGED otherVars
    /\ mpc[i] = "m_join_monitor"
    /\ mpc' = [mpc EXCEPT ![i] = "m_check_audio"]
    /\ UNCHANGED <<pidfile, parentVars, rpc, kpc, signalVars, sessionVars, statusVars>>

\* pthread_join(g_monitor_thread, NULL)
MainJoinMonitor(i) ==
    /\ Quiet
    /\ UNCHANGED otherVars
    /\ mpc[i] = "m_join_monitor"
    /\ kpc[i] = "done"
    /\ mpc' = [mpc EXCEPT ![i] = "m_check_audio"]
    /\ UNCHANGED <<pidfile, parentVars, rpc, kpc, signalVars, sessionVars, statusVars>>

\* mutant of HasAudio: an empty buffer passes
HasAudio_orEmpty(buf) == buf.size >= 0

\* main: if (g_audio_buffer.size > 0)
HasAudio(buf) == buf.size > 0

\* mutant of MainCheckAudio: the empty branch reports FAILED
MainCheckAudio_emptyFailed(i) ==
    /\ Quiet
    /\ UNCHANGED otherVars
    /\ mpc[i] = "m_check_audio"
    /\ IF HasAudio(g_audio_buffer[i])
       THEN /\ update_status(i, "UPLOADING", "0.00")
            /\ mpc' = [mpc EXCEPT ![i] = "m_transcribe"]
       ELSE /\ update_status(i, "FAILED", "0.00")
            /\ mpc' = [mpc EXCEPT ![i] = "m_cleanup"]
    /\ UNCHANGED <<pidfile, parentVars, rpc, kpc, signalVars, sessionVars>>

\* if (g_audio_buffer.size > 0) { update_status("UPLOADING", 0.0); ... }
\* else { update_status("NO_AUDIO", 0.0); usleep(2000000); }
MainCheckAudio(i) ==
    /\ Quiet
    /\ UNCHANGED otherVars
    /\ mpc[i] = "m_check_audio"
    /\ IF HasAudio(g_audio_buffer[i])
       THEN /\ update_status(i, "UPLOADING", "0.00")
            /\ mpc' = [mpc EXCEPT ![i] = "m_transcribe"]
       ELSE /\ update_status(i, "NO_AUDIO", "0.00")
            /\ mpc' = [mpc EXCEPT ![i] = "m_cleanup"]
    /\ UNCHANGED <<pidfile, parentVars, rpc, kpc, signalVars, sessionVars>>

\* transcribe_audio's return value and *result for a response whose body is
\* not NULL: -1 after a transport error, else by the JSON scan
transcribe_audio(r) ==
    IF r.res # "CURLE_OK" THEN [ret |-> -1, result |-> NULL]
    ELSE LET result == ExtractText(r.data[1])
         IN  [ret |-> IF result # NULL THEN 0 ELSE -1, result |-> result]

\* mutant of Transcribed: the failure return value passes too
Transcribed_anyReturn(t) == t.ret <= 0

\* main: transcribe_audio(...) == 0 && transcription
Transcribed(t) == t.ret = 0 /\ t.result # NULL

\* main: the call of transcribe_audio and the branch on its result:
\* copy_to_clipboard + COPIED, or FAILED
MainTranscribe(i) ==
    /\ Quiet
    /\ UNCHANGED otherVars
    /\ mpc[i] = "m_transcribe"
    /\ \E r \in {x \in Responses : x.res # "CURLE_OK" \/ x.data # NULL} :
         LET t == transcribe_audio(r)
         IN  /\ uploads' = [uploads EXCEPT ![i] = @ + 1]
             /\ curl' = [curl EXCEPT ![i] = r]
             /\ transcription' = [transcription EXCEPT ![i] = t.result]
             /\ IF Transcribed(t)
                THEN /\ clipboard' = [clipboard EXCEPT ![i] = Append(@, t.result)]
                     /\ update_status(i, "COPIED", "0.00")
                ELSE /\ UNCHANGED clipboard
                     /\ update_status(i, "FAILED", "0.00")
    /\ mpc' = [mpc EXCEPT ![i] = "m_cleanup"]
    /\ UNCHANGED <<pidfile, parentVars, rpc, kpc, signalVars, g_audio_buffer,
                   capture_handle, elapsed, viz_launched, child_exit, frames>>

\* transcribe_audio on a CURLE_OK response of no bytes: response.data is NULL
\* and strstr(NULL, ...) is undefined: the process dies of SIGSEGV, or the call
\* finds nothing and main goes on to FAILED
MainTranscribeNullBody(i) ==
    /\ Quiet
    /\ UNCHANGED otherVars
    /\ mpc[i] = "m_transcribe"
    /\ \E r \in {x \in Responses : x.res = "CURLE_OK" /\ x.data = NULL} :
         /\ uploads' = [uploads EXCEPT ![i] = @ + 1]
         /\ curl' = [curl EXCEPT ![i] = r]
         /\ \/ /\ mpc' = [mpc EXCEPT ![i] = "crashed"]
               /\ UNCHANGED statusVars
            \/ /\ update_status(i, "FAILED", "0.00")
               /\ mpc' = [mpc EXCEPT ![i] = "m_cleanup"]
    /\ UNCHANGED <<pidfile, parentVars, rpc, kpc, signalVars, g_audio_buffer,
                   capture_handle, elapsed, viz_launched, transcription,
                   clipboard, child_exit, frames>>

\* mutant of MainCleanup: the daemon returns 1
MainCleanup_returnOne(i) ==
    /\ Quiet
    /\ UNCHANGED otherVars
    /\ mpc[i] = "m_cleanup"
    /\ g_audio_buffer' = [g_audio_buffer EXCEPT ![i] = free_audio_buffer(@)]
    /\ pidfile' = NoFile
    /\ pf' = [j \in Inv |-> IF pf[j] = "linked" THEN "detached" ELSE pf[j]]
    /\ g_status_file' = [g_status_file EXCEPT ![i] = FALSE]
    /\ child_exit' = [child_exit EXCEPT ![i] = 1]
    /\ mpc' = [mpc EXCEPT ![i] = "exited"]
    /\ UNCHANGED <<ppc, existing_pid, check_result, exit_code, sent, g_api_key, rpc, kpc,
                   signalVars, capture_handle, elapsed, viz_launched, uploads,
                   transcription, clipboard, curl, frames, statusVars>>

\* Cleanup: free_audio_buffer; free(g_api_key); curl_global_cleanup();
\* unlink(PIDFILE); fclose(g_status_file); unlink(STATUSFILE); return 0
MainCleanup(i) ==
    /\ Quiet
    /\ UNCHANGED otherVars
    /\ mpc[i] = "m_cleanup"
    /\ g_audio_buffer' = [g_audio_buffer EXCEPT ![i] = free_audio_buffer(@)]
    /\ pidfile' = NoFile
    /\ pf' = [j \in Inv |-> IF pf[j] = "linked" THEN "detached" ELSE pf[j]]
    /\ g_status_file' = [g_status_file EXCEPT ![i] = FALSE]
    /\ child_exit' = [child_exit EXCEPT ![i] = 0]
    /\ mpc' = [mpc EXCEPT ![i] = "exited"]
    /\ UNCHANGED <<ppc, existing_pid, check_result, exit_code, sent, g_api_key, rpc, kpc,
                   signalVars, capture_handle, elapsed, viz_launched, uploads,
                   transcription, clipboard, curl, frames, statusVars>>

\* ------------------------------------------------------------ recording_thread
\* snd_pcm_open("plughw:0,0"), else snd_pcm_open("default"); both failing:
\* update_status("ERROR: Audio device failed", 0.0); return NULL
RecordOpen(i) ==
    /\ Quiet
    /\ UNCHANGED otherVars
    /\ rpc[i] = "r_open"
    /\ \E device \in {"plughw:0,0", "default", "none"} :
         IF device = "none"
         THEN /\ update_status(i, "ERROR: Audio device failed", "0.00")
              /\ rpc' = [rpc EXCEPT ![i] = "done"]
              /\ UNCHANGED capture_handle
         ELSE /\ capture_handle' = [capture_handle EXCEPT ![i] = TRUE]
              /\ rpc' = [rpc EXCEPT ![i] = "r_params"]
              /\ UNCHANGED statusVars
    /\ UNCHANGED <<pidfile, parentVars, mpc, kpc, signalVars, g_audio_buffer,
                   elapsed, viz_launched, uploads, transcription, clipboard,
                   child_exit, curl, frames>>

\* snd_pcm_hw_params failing: snd_pcm_close; return NULL.  Otherwise
\* snd_pcm_prepare and init_audio_buffer(&g_audio_buffer, SAMPLE_RATE * 2 * 10)
RecordParams(i) ==
    /\ Quiet
    /\ UNCHANGED otherVars
    /\ rpc[i] = "r_params"
    /\ \E ok \in BOOLEAN :
         IF ok
         THEN /\ g_audio_buffer' = [g_audio_buffer EXCEPT
                                      ![i] = init_audio_buffer(SAMPLE_RATE * 2 * 10)]
              /\ rpc' = [rpc EXCEPT ![i] = "r_ready"]
              /\ UNCHANGED capture_handle
         ELSE /\ capture_handle' = [capture_handle EXCEPT ![i] = FALSE]
              /\ rpc' = [rpc EXCEPT ![i] = "done"]
              /\ UNCHANGED g_audio_buffer
    /\ UNCHANGED <<pidfile, parentVars, mpc, kpc, signalVars, elapsed,
                   viz_launched, uploads, transcription, clipboard, child_exit, curl, frames,
                   statusVars>>

\* update_status("READY", 0.0); usleep(200000)
RecordReady(i) ==
    /\ Quiet
    /\ UNCHANGED otherVars
    /\ rpc[i] = "r_ready"
    /\ update_status(i, "READY", "0.00")
    /\ rpc' = [rpc EXCEPT ![i] = "r_recording"]
    /\ UNCHANGED <<pidfile, parentVars, mpc, kpc, signalVars, sessionVars>>

\* update_status("RECORDING", 0.0)
RecordRecording(i) ==
    /\ Quiet
    /\ UNCHANGED otherVars
    /\ rpc[i] = "r_recording"
    /\ update_status(i, "RECORDING", "0.00")
    /\ rpc' = [rpc EXCEPT ![i] = "r_loop"]
    /\ UNCHANGED <<pidfile, parentVars, mpc, kpc, signalVars, sessionVars>>

\* while (!g_stop_recording)
RecordLoop(i) ==
    /\ Quiet
    /\ UNCHANGED otherVars
    /\ rpc[i] = "r_loop"
    /\ rpc' = [rpc EXCEPT ![i] = IF g_stop_recording[i] = 0 THEN "r_body"
                                  ELSE "r_close"]
    /\ UNCHANGED <<pidfile, parentVars, mpc, kpc, signalVars, sessionVars, statusVars>>

\* mutant of TimedOut: the ceiling itself counts as exceeded
TimedOut_atCeiling(el) == el >= MAX_RECORDING_TIME

\* if (time(NULL) - g_record_start_time > MAX_RECORDING_TIME)
TimedOut(el) == el > MAX_RECORDING_TIME

\* the loop body on timeout: update_status("MAX_TIME", 0.0); break
RecordMaxTime(i) ==
    /\ Quiet
    /\ UNCHANGED otherVars
    /\ rpc[i] = "r_body"
    /\ TimedOut(elapsed[i])
    /\ update_status(i, "MAX_TIME", "0.00")
    /\ rpc' = [rpc EXCEPT ![i] = "r_close"]
    /\ UNCHANGED <<pidfile, parentVars, mpc, kpc, signalVars, sessionVars>>

\* the loop body otherwise: frames = snd_pcm_readi(...); if (frames < 0)
\* frames = snd_pcm_recover(...); if (frames > 0) append_audio_buffer(frames * 2)
\* (and the level computation); then back to the loop test
RecordRead(i) ==
    /\ Quiet
    /\ UNCHANGED otherVars
    /\ rpc[i] = "r_body"
    /\ ~TimedOut(elapsed[i])
    /\ \E read \in {-1, BUFFER_SIZE}, recovered \in {-1, 0}, realloc_ok \in BOOLEAN :
         LET got == IF read < 0 THEN recovered ELSE read
         IN  /\ got > 0 =>
                  g_audio_buffer[i].size + got * 2 <= MaxFrames * BUFFER_SIZE * 2
             /\ frames' = [frames EXCEPT ![i] = got]
             /\ g_audio_buffer' =
                  [g_audio_buffer EXCEPT
                     ![i] = IF got > 0
                            THEN append_audio_buffer(@, got * 2, realloc_ok)
                            ELSE @]
    /\ rpc' = [rpc EXCEPT ![i] = "r_loop"]
    /\ UNCHANGED <<pidfile, parentVars, mpc, kpc, signalVars, capture_handle,
                   elapsed, viz_launched, uploads, transcription, clipboard,
                   child_exit, curl, statusVars>>

\* snd_pcm_close(capture_handle); return NULL (frames goes out of scope)
RecordClose(i) ==
    /\ Quiet
    /\ UNCHANGED otherVars
    /\ rpc[i] = "r_close"
    /\ capture_handle' = [capture_handle EXCEPT ![i] = FALSE]
    /\ frames' = [frames EXCEPT ![i] = 0]
    /\ rpc' = [rpc EXCEPT ![i] = "done"]
    /\ UNCHANGED <<pidfile, parentVars, mpc, kpc, signalVars, g_audio_buffer,
                   elapsed, viz_launched, uploads, transcription, clipboard,
                   child_exit, curl, statusVars>>

\* -------------------------------------------------------------- monitor_thread
\* write /tmp/voice_viz.py and launch the visualizer
MonitorLaunch(i) ==
    /\ Quiet
    /\ UNCHANGED otherVars
    /\ kpc[i] = "k_launch"
    /\ viz_launched' = [viz_launched EXCEPT ![i] = TRUE]
    /\ kpc' = [kpc EXCEPT ![i] = "k_loop"]
    /\ UNCHANGED <<pidfile, parentVars, mpc, rpc, signalVars, g_audio_buffer,
                   capture_handle, elapsed, uploads, transcription, clipboard,
                   child_exit, curl, frames, statusVars>>

\* while (!g_stop_recording)
MonitorLoop(i) ==
    /\ Quiet
    /\ UNCHANGED otherVars
    /\ kpc[i] = "k_loop"
    /\ kpc' = [kpc EXCEPT ![i] = IF g_stop_recording[i] = 0 THEN "k_update"
                                  ELSE "k_settle"]
    /\ UNCHANGED <<pidfile, parentVars, mpc, rpc, signalVars, sessionVars, statusVars>>

\* update_status("RECORDING", g_current_level); usleep(50000)
MonitorUpdate(i) ==
    /\ Quiet
    /\ UNCHANGED otherVars
    /\ kpc[i] = "k_update"
    /\ update_status(i, "RECORDING", "level")
    /\ kpc' = [kpc EXCEPT ![i] = "k_loop"]
    /\ UNCHANGED <<pidfile, parentVars, mpc, rpc, signalVars, sessionVars>>

\* usleep(100000); unlink("/tmp/voice_viz.py"); return NULL
MonitorSettle(i) ==
    /\ Quiet
    /\ UNCHANGED otherVars
    /\ kpc[i] = "k_settle"
    /\ kpc' = [kpc EXCEPT ![i] = "done"]
    /\ UNCHANGED <<pidfile, parentVars, mpc, rpc, signalVars, sessionVars, statusVars>>

\* ---------------------------------------------------------------- environment
\* the clock: elapsed jumps to the ceiling, then runs past it second by second.
\* Only the capture loop compares it, so it moves while that loop runs
Tick(i) ==
    /\ Quiet
    /\ UNCHANGED otherVars
    /\ rpc[i] \in {"r_loop", "r_body"}
    /\ elapsed[i] < MAX_RECORDING_TIME + MaxOver
    /\ elapsed' = [elapsed EXCEPT ![i] = IF @ < MAX_RECORDING_TIME
                                          THEN MAX_RECORDING_TIME ELSE @ + 1]
    /\ UNCHANGED <<pidfile, parentVars, threadVars, signalVars, g_audio_buffer,
                   capture_handle, viz_launched, uploads, transcription,
                   clipboard, child_exit, curl, frames, statusVars>>

\* both processes of invocation i have ended and their exit statuses were
\* collected: nothing of them remains but what they left in PIDFILE
Reap(i) ==
    /\ Reapable(i)
    /\ UNCHANGED otherVars
    /\ ppc' = [ppc EXCEPT ![i] = "gone"]
    /\ existing_pid' = [existing_pid EXCEPT ![i] = 0]
    /\ check_result' = [check_result EXCEPT ![i] = "none"]
    /\ exit_code' = [exit_code EXCEPT ![i] = -1]
    /\ sent' = [sent EXCEPT ![i] = <<>>]
    /\ g_api_key' = [g_api_key EXCEPT ![i] = FALSE]
    /\ g_status_file' = [g_status_file EXCEPT ![i] = FALSE]
    /\ mpc' = [mpc EXCEPT ![i] = "none"]
    /\ rpc' = [rpc EXCEPT ![i] = "none"]
    /\ kpc' = [kpc EXCEPT ![i] = "none"]
    /\ g_stop_recording' = [g_stop_recording EXCEPT ![i] = 0]
    /\ signalled' = [signalled EXCEPT ![i] = FALSE]
    /\ g_audio_buffer' = [g_audio_buffer EXCEPT ![i] = NoBuffer]
    /\ elapsed' = [elapsed EXCEPT ![i] = 0]
    /\ status_file' = [status_file EXCEPT ![i] = <<>>]
    /\ published' = [published EXCEPT ![i] = <<>>]
    /\ viz_launched' = [viz_launched EXCEPT ![i] = FALSE]
    /\ uploads' = [uploads EXCEPT ![i] = 0]
    /\ transcription' = [transcription EXCEPT ![i] = NULL]
    /\ clipboard' = [clipboard EXCEPT ![i] = <<>>]
    /\ child_exit' = [child_exit EXCEPT ![i] = -1]
    /\ curl' = [curl EXCEPT ![i] = NoResponse]
    /\ frames' = [frames EXCEPT ![i] = 0]
    /\ UNCHANGED <<pidfile, pf, capture_handle>>

Next ==
    \E i \in Inv :
        \/ Start(i) \/ CheckOpen(i) \/ Probe(i) \/ UnlinkStale(i) \/ Decide(i)
        \/ OpenStatus(i) \/ LoadEnv(i) \/ Fork(i)
        \/ ParentOpenPidfile(i) \/ ParentWritePidfile(i)
        \/ MainConnecting(i) \/ MainCreateRecord(i) \/ MainCreateMonitor(i)
        \/ MainJoinRecord(i) \/ MainProcessing(i) \/ MainSetStop(i)
        \/ MainJoinMonitor(i) \/ MainCheckAudio(i) \/ MainTranscribe(i)
        \/ MainTranscribeNullBody(i) \/ MainCleanup(i)
        \/ RecordOpen(i) \/ RecordParams(i) \/ RecordReady(i)
        \/ RecordRecording(i) \/ RecordLoop(i) \/ RecordMaxTime(i)
        \/ RecordRead(i) \/ RecordClose(i)
        \/ MonitorLaunch(i) \/ MonitorLoop(i) \/ MonitorUpdate(i)
        \/ MonitorSettle(i)
        \/ EnvSignal(i) \/ Tick(i) \/ Reap(i)

Spec == Init /\ [][Next]_vars

\* the steps of each of a daemon's three threads
MainStep(i) ==
    \/ MainConnecting(i) \/ MainCreateRecord(i) \/ MainCreateMonitor(i)
    \/ MainJoinRecord(i) \/ MainProcessing(i) \/ MainSetStop(i)
    \/ MainJoinMonitor(i) \/ MainCheckAudio(i) \/ MainTranscribe(i)
    \/ MainTranscribeNullBody(i) \/ MainCleanup(i)

RecordStep(i) ==
    \/ RecordOpen(i) \/ RecordParams(i) \/ RecordReady(i) \/ RecordRecording(i)
    \/ RecordLoop(i) \/ RecordMaxTime(i) \/ RecordRead(i) \/ RecordClose(i)

MonitorStep(i) ==
    MonitorLaunch(i) \/ MonitorLoop(i) \/ MonitorUpdate(i) \/ MonitorSettle(i)

\* every thread that can run is eventually scheduled; the sleeps, the device
\* reads and the upload call return; a finished invocation is forgotten
FairSpec ==
    /\ Spec
    /\ \A i \in Inv :
         /\ WF_vars(MainStep(i)) /\ WF_vars(RecordStep(i))
         /\ WF_vars(MonitorStep(i)) /\ WF_vars(Reap(i))

\* ------------------------------------------ update_status, call by call
\* SpecStatus follows one daemon from the child's first statement with
\* update_status taken one stdio call at a time.  g_status_file is one stream
\* shared by the three threads; each stdio call locks it for itself only.
\* status_file is the file's content as the bytes of its records (one field or
\* separator each), published the statuses in the order of their fprintf.

\* the bytes one fprintf of update_status puts into the stream
RecordLine(status, level, el) == FormatRecord(status, level, el) \o <<"\n">>

RECURSIVE Zeros(_)
Zeros(n) == IF n <= 0 THEN <<>> ELSE <<"NUL">> \o Zeros(n - 1)

\* write(fd, bytes) at offset off
WriteAt(file, off, bytes) ==
    LET padded == file \o Zeros(off - Len(file))
    IN  SubSeq(padded, 1, off) \o bytes
          \o SubSeq(padded, off + Len(bytes) + 1, Len(padded))

\* ftruncate(fd, length): the file is cut, or extended with zero bytes
Truncate(file, length) ==
    IF length <= Len(file) THEN SubSeq(file, 1, length)
    ELSE file \o Zeros(length - Len(file))

\* the thread's position
SetPc(i, t, pc) ==
    CASE t = "main" -> mpc' = [mpc EXCEPT ![i] = pc] /\ UNCHANGED <<rpc, kpc>>
      [] t = "record" -> rpc' = [rpc EXCEPT ![i] = pc] /\ UNCHANGED <<mpc, kpc>>
      [] t = "monitor" -> kpc' = [kpc EXCEPT ![i] = pc] /\ UNCHANGED <<mpc, rpc>>

\* update_status(status, level) entered by thread t, which goes on at ret
\* after it: if (g_status_file) { ... }
EnterStatus(i, t, status, level, ret) ==
    /\ ucall[i][t] = NoCall
    /\ IF g_status_file[i]
       THEN /\ ucall' = [ucall EXCEPT ![i][t] = [step |-> "fseek", status |-> status,
                                                 level |-> level, ret |-> ret]]
            /\ UNCHANGED threadVars
       ELSE /\ SetPc(i, t, ret)
            /\ UNCHANGED ucall

\* fseek(g_status_file, 0, SEEK_SET): pending bytes are written out first
UFseek(i, t) ==
    /\ Quiet
    /\ ucall[i][t].step = "fseek"
    /\ status_file' = [status_file EXCEPT
                          ![i] = WriteAt(@, fd_offset[i], stream_buf[i])]
    /\ stream_buf' = [stream_buf EXCEPT ![i] = <<>>]
    /\ fd_offset' = [fd_offset EXCEPT ![i] = 0]
    /\ ucall' = [ucall EXCEPT ![i][t].step = "fprintf"]
    /\ UNCHANGED <<pidfile, parentVars, threadVars, signalVars, sessionVars,
                   published, scanVars, bufferVars>>

\* elapsed = time(NULL) - g_record_start_time; fprintf(g_status_file, ...):
\* the record goes to the end of the stream's buffer
UFprintf(i, t) ==
    /\ Quiet
    /\ ucall[i][t].step = "fprintf"
    /\ stream_buf' = [stream_buf EXCEPT
                         ![i] = @ \o RecordLine(ucall[i][t].status,
                                                ucall[i][t].level, elapsed[i])]
    /\ published' = [published EXCEPT
                        ![i] = IF @ # <<>> /\ @[Len(@)] = ucall[i][t].status
                               THEN @ ELSE Append(@, ucall[i][t].status)]
    /\ ucall' = [ucall EXCEPT ![i][t].step = "ftruncate"]
    /\ UNCHANGED <<pidfile, parentVars, threadVars, signalVars, sessionVars,
                   status_file, fd_offset, scanVars, bufferVars>>

\* ftruncate(fileno(g_status_file), ftell(g_status_file)): ftell counts the
\* bytes still in the buffer
UFtruncate(i, t) ==
    /\ Quiet
    /\ ucall[i][t].step = "ftruncate"
    /\ status_file' = [status_file EXCEPT
                          ![i] = Truncate(@, fd_offset[i] + Len(stream_buf[i]))]
    /\ ucall' = [ucall EXCEPT ![i][t].step = "fflush"]
    /\ UNCHANGED <<pidfile, parentVars, threadVars, signalVars, sessionVars,
                   published, stream_buf, fd_offset, scanVars, bufferVars>>

\* fflush(g_status_file), and the call returns
UFflush(i, t) ==
    /\ Quiet
    /\ ucall[i][t].step = "fflush"
    /\ status_file' = [status_file EXCEPT
                          ![i] = WriteAt(@, fd_offset[i], stream_buf[i])]
    /\ fd_offset' = [fd_offset EXCEPT ![i] = @ + Len(stream_buf[i])]
    /\ stream_buf' = [stream_buf EXCEPT ![i] = <<>>]
    /\ ucall' = [ucall EXCEPT ![i][t] = NoCall]
    /\ SetPc(i, t, ucall[i][t].ret)
    /\ UNCHANGED <<pidfile, parentVars, signalVars, sessionVars, published,
                   scanVars, bufferVars>>

\* the statements of main and of the two threads that call update_status
StatusMainConnecting(i) ==
    /\ Quiet
    /\ mpc[i] = "m_start"
    /\ elapsed' = [elapsed EXCEPT ![i] = 0]
    /\ EnterStatus(i, "main", "CONNECTING", "0.00", "m_create_record")
    /\ UNCHANGED <<pidfile, parentVars, signalVars, g_audio_buffer, capture_handle,
                   viz_launched, uploads, transcription, clipboard, child_exit, curl, frames,
                   statusVars, stream_buf, fd_offset, scanVars, bufferVars>>

StatusMainProcessing(i) ==
    /\ Quiet
    /\ mpc[i] = "m_processing"
    /\ EnterStatus(i, "main", "PROCESSING", "0.00", "m_set_stop")
    /\ UNCHANGED <<pidfile, parentVars, signalVars, sessionVars, statusVars,
                   stream_buf, fd_offset, scanVars, bufferVars>>

StatusMainCheckAudio(i) ==
    /\ Quiet
    /\ mpc[i] = "m_check_audio"
    /\ IF HasAudio(g_audio_buffer[i])
       THEN EnterStatus(i, "main", "UPLOADING", "0.00", "m_transcribe")
       ELSE EnterStatus(i, "main", "NO_AUDIO", "0.00", "m_cleanup")
    /\ UNCHANGED <<pidfile, parentVars, signalVars, sessionVars, statusVars,
                   stream_buf, fd_offset, scanVars, bufferVars>>

StatusMainTranscribe(i) ==
    /\ Quiet
    /\ mpc[i] = "m_transcribe"
    /\ ucall[i]["main"] = NoCall
    /\ \E r \in {x \in Responses : x.res # "CURLE_OK" \/ x.data # NULL} :
         LET t == transcribe_audio(r)
         IN  /\ uploads' = [uploads EXCEPT ![i] = @ + 1]
             /\ curl' = [curl EXCEPT ![i] = r]
             /\ transcription' = [transcription EXCEPT ![i] = t.result]
             /\ IF Transcribed(t)
                THEN /\ clipboard' = [clipboard EXCEPT ![i] = Append(@, t.result)]
                     /\ EnterStatus(i, "main", "COPIED", "0.00", "m_cleanup")
                ELSE /\ UNCHANGED clipboard
                     /\ EnterStatus(i, "main", "FAILED", "0.00", "m_cleanup")
    /\ UNCHANGED <<pidfile, parentVars, signalVars, g_audio_buffer, capture_handle,
                   elapsed, viz_launched, child_exit, frames, statusVars, stream_buf,
                   fd_offset, scanVars, bufferVars>>

StatusMainTranscribeNullBody(i) ==
    /\ Quiet
    /\ mpc[i] = "m_transcribe"
    /\ ucall[i]["main"] = NoCall
    /\ \E r \in {x \in Responses : x.res = "CURLE_OK" /\ x.data = NULL} :
         /\ uploads' = [uploads EXCEPT ![i] = @ + 1]
         /\ curl' = [curl EXCEPT ![i] = r]
         /\ \/ /\ mpc' = [mpc EXCEPT ![i] = "crashed"]
               /\ UNCHANGED <<rpc, kpc, ucall>>
            \/ EnterStatus(i, "main", "FAILED", "0.00", "m_cleanup")
    /\ UNCHANGED <<pidfile, parentVars, signalVars, g_audio_buffer, capture_handle,
                   elapsed, viz_launched, transcription, clipboard, child_exit, frames,
                   statusVars, stream_buf, fd_offset, scanVars, bufferVars>>

StatusRecordOpen(i) ==
    /\ Quiet
    /\ rpc[i] = "r_open"
    /\ \E device \in {"plughw:0,0", "default", "none"} :
         IF device = "none"
         THEN /\ EnterStatus(i, "record", "ERROR: Audio device failed", "0.00", "done")
              /\ UNCHANGED capture_handle
         ELSE /\ ucall[i]["record"] = NoCall
              /\ capture_handle' = [capture_handle EXCEPT ![i] = TRUE]
              /\ rpc' = [rpc EXCEPT ![i] = "r_params"]
              /\ UNCHANGED <<mpc, kpc, ucall>>
    /\ UNCHANGED <<pidfile, parentVars, signalVars, g_audio_buffer, elapsed,
                   viz_launched, uploads, transcription, clipboard, child_exit, curl, frames,
                   statusVars, stream_buf, fd_offset, scanVars, bufferVars>>

StatusRecordReady(i) ==
    /\ Quiet
    /\ rpc[i] = "r_ready"
    /\ EnterStatus(i, "record", "READY", "0.00", "r_recording")
    /\ UNCHANGED <<pidfile, parentVars, signalVars, sessionVars, statusVars,
                   stream_buf, fd_offset, scanVars, bufferVars>>

StatusRecordRecording(i) ==
    /\ Quiet
    /\ rpc[i] = "r_recording"
    /\ EnterStatus(i, "record", "RECORDING", "0.00", "r_loop")
    /\ UNCHANGED <<pidfile, parentVars, signalVars, sessionVars, statusVars,
                   stream_buf, fd_offset, scanVars, bufferVars>>

StatusRecordMaxTime(i) ==
    /\ Quiet
    /\ rpc[i] = "r_body"
    /\ TimedOut(elapsed[i])
    /\ EnterStatus(i, "record", "MAX_TIME", "0.00", "r_close")
    /\ UNCHANGED <<pidfile, parentVars, signalVars, sessionVars, statusVars,
                   stream_buf, fd_offset, scanVars, bufferVars>>

StatusMonitorUpdate(i) ==
    /\ Quiet
    /\ kpc[i] = "k_update"
    /\ EnterStatus(i, "monitor", "RECORDING", "level", "k_loop")
    /\ UNCHANGED <<pidfile, parentVars, signalVars, sessionVars, statusVars,
                   stream_buf, fd_offset, scanVars, bufferVars>>

\* the daemon of invocation 1 right after fork(), its parent having written
\* the pid file and returned, the status file open
InitStatus ==
    /\ pidfile = [exists |-> TRUE, content |-> <<ChildPid(1)>>]
    /\ ppc = [i \in Inv |-> IF i = 1 THEN "exited" ELSE "idle"]
    /\ existing_pid = [i \in Inv |-> 0]
    /\ check_result = [i \in Inv |-> IF i = 1 THEN "absent" ELSE "none"]
    /\ pf = [i \in Inv |-> "closed"]
    /\ exit_code = [i \in Inv |-> IF i = 1 THEN 0 ELSE -1]
    /\ sent = [i \in Inv |-> <<>>]
    /\ g_api_key = [i \in Inv |-> i = 1]
    /\ g_status_file = [i \in Inv |-> i = 1]
    /\ mpc = [i \in Inv |-> IF i = 1 THEN "m_start" ELSE "none"]
    /\ rpc = [i \in Inv |-> "none"]
    /\ kpc = [i \in Inv |-> "none"]
    /\ g_stop_recording = [i \in Inv |-> 0]
    /\ signalled = [i \in Inv |-> FALSE]
    /\ g_audio_buffer = [i \in Inv |-> NoBuffer]
    /\ capture_handle = [i \in Inv |-> FALSE]
    /\ elapsed = [i \in Inv |-> 0]
    /\ status_file = [i \in Inv |-> <<>>]
    /\ published = [i \in Inv |-> <<>>]
    /\ viz_launched = [i \in Inv |-> FALSE]
    /\ uploads = [i \in Inv |-> 0]
    /\ transcription = [i \in Inv |-> NULL]
    /\ clipboard = [i \in Inv |-> <<>>]
    /\ child_exit = [i \in Inv |-> -1]
    /\ curl = [i \in Inv |-> NoResponse]
    /\ frames = [i \in Inv |-> 0]
    /\ stream_buf = [i \in Inv |-> <<>>]
    /\ fd_offset = [i \in Inv |-> 0]
    /\ ucall = [i \in Inv |-> [t \in Threads |-> NoCall]]
    /\ scan_pc = "idle"
    /\ text = <<>>
    /\ response = NULL
    /\ scan_result = NULL
    /\ buffer = NoBuffer
    /\ buffer_initial = 0
    /\ appended = <<>>

NextStatus ==
    \E i \in Inv :
        \/ StatusMainConnecting(i) \/ MainCreateRecord(i) \/ MainCreateMonitor(i)
        \/ MainJoinRecord(i) \/ StatusMainProcessing(i) \/ MainSetStop(i)
        \/ MainJoinMonitor(i) \/ StatusMainCheckAudio(i)
        \/ StatusMainTranscribe(i) \/ StatusMainTranscribeNullBody(i)
        \/ MainCleanup(i)
        \/ StatusRecordOpen(i) \/ RecordParams(i) \/ StatusRecordReady(i)
        \/ StatusRecordRecording(i) \/ RecordLoop(i) \/ StatusRecordMaxTime(i)
        \/ RecordRead(i) \/ RecordClose(i)
        \/ MonitorLaunch(i) \/ MonitorLoop(i) \/ StatusMonitorUpdate(i)
        \/ MonitorSettle(i)
        \/ EnvSignal(i) \/ Tick(i)
        \/ \E t \in Threads :
              UFseek(i, t) \/ UFprintf(i, t) \/ UFtruncate(i, t) \/ UFflush(i, t)

SpecStatus == InitStatus /\ [][NextStatus]_vars

\* ------------------------------------------- the JSON scan on its own
\* SpecScan: the backend produces a transcript, sends it JSON-encoded as the
\* text field of the response body, and transcribe_audio extracts it.

\* the characters of a transcript: a letter and the five JSON treats specially
Alphabet == {"a", "\n", "\t", "\r", "\"", "\\"}
Texts == UNION {[1..n -> Alphabet] : n \in 0..MaxText}

\* the backend's JSON string encoding of one character (RFC 8259, section 7)
JsonEscapeChar(c) ==
    CASE c = "\"" -> <<"\\", "\"">>
      [] c = "\\" -> <<"\\", "\\">>
      [] c = "\n" -> <<"\\", "n">>
      [] c = "\t" -> <<"\\", "t">>
      [] c = "\r" -> <<"\\", "r">>
      [] OTHER -> <<c>>

RECURSIVE JsonEscape(_)
JsonEscape(s) ==
    IF Len(s) = 0 THEN <<>>
    ELSE JsonEscapeChar(s[1]) \o JsonEscape(SubSeq(s, 2, Len(s)))

\* curl_easy_perform: write_callback collects the body {"text":"<encoded>"}
ScanReceive ==
    /\ scan_pc = "idle"
    /\ response' = Ptr(TextBody(JsonEscape(text)))
    /\ scan_pc' = "received"
    /\ UNCHANGED <<pidfile, parentVars, threadVars, signalVars, sessionVars,
                   statusVars, streamVars, bufferVars, text, scan_result>>

\* the JSON scan of transcribe_audio
ScanExtract ==
    /\ scan_pc = "received"
    /\ scan_result' = ExtractText(response[1])
    /\ scan_pc' = "scanned"
    /\ UNCHANGED <<pidfile, parentVars, threadVars, signalVars, sessionVars,
                   statusVars, streamVars, bufferVars, text, response>>

InitScan ==
    /\ InitProgram
    /\ scan_pc = "idle"
    /\ text \in Texts
    /\ response = NULL
    /\ scan_result = NULL

NextScan == ScanReceive \/ ScanExtract

SpecScan == InitScan /\ [][NextScan]_vars

\* ------------------------------------------------- the buffer on its own
\* SpecBuffer applies init_audio_buffer once and append_audio_buffer
\* repeatedly to one AudioBuffer, with small sizes so that one append can
\* take several doublings.

\* init_audio_buffer(&buffer, initial_size)
BufferInit ==
    /\ buffer = NoBuffer
    /\ \E initial_size \in 1..MaxInitial :
        /\ buffer' = init_audio_buffer(initial_size)
        /\ buffer_initial' = initial_size
    /\ appended' = <<>>
    /\ UNCHANGED <<pidfile, parentVars, threadVars, signalVars, sessionVars,
                   statusVars, streamVars, scanVars>>

\* append_audio_buffer(&buffer, data, size)
BufferAppend ==
    /\ buffer # NoBuffer
    /\ Len(appended) < MaxAppends
    /\ \E size \in 1..MaxChunk, realloc_ok \in BOOLEAN :
        /\ buffer' = append_audio_buffer(buffer, size, realloc_ok)
        /\ appended' = Append(appended,
                [size |-> size,
                 stored |-> realloc_ok \/ buffer.size + size <= buffer.capacity])
    /\ UNCHANGED <<pidfile, parentVars, threadVars, signalVars, sessionVars,
                   statusVars, streamVars, scanVars, buffer_initial>>

NextBuffer == BufferInit \/ BufferAppend

SpecBuffer == Init /\ [][NextBuffer]_vars

\* ------------------------------------------- invocations at the same time
\* SpecRace drops the one-after-another order of the invocations (two key
\* presses, two shells) and follows each daemon up to its capture loop.

\* a new invocation at any time
StartAnytime(i) ==
    /\ Quiet
    /\ UNCHANGED otherVars
    /\ ppc[i] = "idle"
    /\ ppc' = [ppc EXCEPT ![i] = "check_open"]
    /\ UNCHANGED <<pidfile, existing_pid, check_result, pf, exit_code, sent, g_api_key,
                   g_status_file, threadVars, signalVars, sessionVars, statusVars>>

NextRace ==
    \E i \in Inv :
        \/ StartAnytime(i) \/ CheckOpen(i) \/ Probe(i) \/ UnlinkStale(i)
        \/ Decide(i) \/ OpenStatus(i) \/ LoadEnv(i) \/ Fork(i)
        \/ ParentOpenPidfile(i) \/ ParentWritePidfile(i)
        \/ MainConnecting(i) \/ MainCreateRecord(i)
        \/ RecordOpen(i) \/ RecordParams(i) \/ RecordReady(i)
        \/ RecordRecording(i) \/ RecordLoop(i)
        \/ Reap(i)

SpecRace == Init /\ [][NextRace]_vars

\* ===================================================================== claims
Range(seq) == {seq[k] : k \in 1..Len(seq)}
Last(seq) == seq[Len(seq)]
\* a was written, and b after it
Before(seq, a, b) == \E j, k \in 1..Len(seq) : j < k /\ seq[j] = a /\ seq[k] = b
Terminals == {"COPIED", "FAILED", "NO_AUDIO"}

\* C1: an invocation whose check found the pid file naming a live process
\* sends SIGUSR1 to that pid and returns 0 at once; it never opens or writes
\* the pid file and none of its threads (no daemon, no capture) ever starts.
C1_StopPath ==
    \A i \in Inv :
        (check_result[i] = "live" /\ existing_pid[i] > 0) =>
            /\ ppc[i] \in {"decide", "exited"}
            /\ mpc[i] = "none" /\ rpc[i] = "none" /\ kpc[i] = "none"
            /\ pf[i] = "closed"
            /\ ppc[i] = "decide" => sent[i] = <<>>
            /\ ppc[i] = "exited" =>
                 /\ sent[i] = << <<existing_pid[i], "SIGUSR1">> >>
                 /\ exit_code[i] = 0
                 /\ Running(existing_pid[i]) =>
                        g_stop_recording[existing_pid[i]] = 1

C1_Witness ==
    \E i \in Inv :
        /\ check_result[i] = "live" /\ ppc[i] = "exited"
        /\ sent[i] = << <<existing_pid[i], "SIGUSR1">> >>
        /\ Running(existing_pid[i]) /\ signalled[existing_pid[i]]

\* C2: an invocation whose check found the pid file naming a dead process
\* deletes the file, sends no signal, and goes down the start path: it ends
\* only by a startup failure (exit 1, no daemon) or after forking a daemon and
\* writing the daemon's pid to a fresh pid file (exit 0).
C2_StaleState ==
    \A i \in Inv :
        check_result[i] = "stale" =>
            /\ sent[i] = <<>>
            /\ ppc[i] \in {"unlink_stale", "decide", "open_status", "load_env",
                           "fork", "pf_open", "pf_write", "exited"}
            /\ ppc[i] # "unlink_stale" => existing_pid[i] = 0
            /\ mpc[i] # "none" => ppc[i] \in {"pf_open", "pf_write", "exited"}
            /\ ppc[i] = "exited" =>
                 \/ exit_code[i] = 1 /\ mpc[i] = "none"
                 \/ exit_code[i] = 0 /\ mpc[i] # "none"

C2_StaleStep ==
    \A i \in Inv :
        check_result[i] = "stale" =>
            /\ (ppc[i] = "unlink_stale" /\ ppc'[i] # "unlink_stale") =>
                 (pidfile' = NoFile /\ UNCHANGED signalVars)
            /\ (ppc[i] = "pf_write" /\ ppc'[i] = "exited" /\ pf[i] = "linked") =>
                 pidfile' = [exists |-> TRUE, content |-> <<ChildPid(i)>>]

C2_StaleOwner == [] C2_StaleState /\ [][C2_StaleStep]_vars

C2_Witness ==
    \E i \in Inv :
        /\ check_result[i] = "stale" /\ ppc[i] = "exited" /\ exit_code[i] = 0
        /\ pidfile = [exists |-> TRUE, content |-> <<ChildPid(i)>>]
        /\ rpc[i] = "r_body" /\ g_audio_buffer[i].size > 0

\* C3: UPLOADING is published only after PROCESSING, and only when the buffer
\* holds at least one byte at finalize; with an empty buffer it never is.
C3_UploadingGuard ==
    \A i \in Inv :
        /\ "UPLOADING" \in Range(published[i]) =>
             /\ Before(published[i], "PROCESSING", "UPLOADING")
             /\ mpc[i] \in {"m_transcribe", "m_cleanup", "exited", "crashed"}
             /\ mpc[i] \in {"m_transcribe", "m_cleanup"} =>
                    g_audio_buffer[i].size > 0
        /\ (mpc[i] \in {"m_check_audio", "m_transcribe", "m_cleanup"}
            /\ g_audio_buffer[i].size = 0) =>
             "UPLOADING" \notin Range(published[i])

C3_Witness ==
    \E i \in Inv :
        /\ mpc[i] = "m_transcribe" /\ g_audio_buffer[i].size > 0
        /\ published[i] # <<>> /\ Last(published[i]) = "UPLOADING"

\* C4 (as claimed): COPIED is published only after UPLOADING and only when the
\* transcription call produced a non-empty result text.
C4_CopiedNonEmpty ==
    \A i \in Inv :
        "COPIED" \in Range(published[i]) =>
            /\ Before(published[i], "UPLOADING", "COPIED")
            /\ transcription[i] # NULL
            /\ transcription[i][1] # <<>>

\* What the code does keep: COPIED is published only after UPLOADING and only
\* when the transcription call returned 0 with a result text, which may be
\* empty; that text is what the clipboard got.
C4_CopiedResult ==
    \A i \in Inv :
        "COPIED" \in Range(published[i]) =>
            /\ Before(published[i], "UPLOADING", "COPIED")
            /\ transcription[i] # NULL
            /\ clipboard[i] = <<transcription[i]>>

C4_Witness ==
    \E i \in Inv :
        /\ published[i] # <<>> /\ Last(published[i]) = "COPIED"
        /\ transcription[i] = Ptr(<<>>)
        /\ clipboard[i] = <<Ptr(<<>>)>>

\* position of a status on the path CONNECTING -> READY -> RECORDING ->
\* [MAX_TIME] -> PROCESSING -> UPLOADING -> {COPIED | FAILED | NO_AUDIO}
PathRank(status) ==
    CASE status = "CONNECTING" -> 1
      [] status = "READY" -> 2
      [] status = "RECORDING" -> 3
      [] status = "MAX_TIME" -> 4
      [] status = "PROCESSING" -> 5
      [] status = "UPLOADING" -> 6
      [] status \in Terminals -> 7
      [] OTHER -> 0

\* C5 (as claimed): the statuses written in one session follow the linear
\* path and never move back to an earlier status (the device-error record
\* aside).
C5_LinearPath ==
    \A i \in Inv :
        LET path == SelectSeq(published[i], LAMBDA st : PathRank(st) > 0)
        IN  \A k \in 1..(Len(path) - 1) : PathRank(path[k]) < PathRank(path[k + 1])

InCaptureLoop(i) == rpc[i] \in {"r_loop", "r_body"}

\* the session wrote PROCESSING and then exactly one terminal status, its last
FinishedOnce(i) ==
    /\ published[i] # <<>>
    /\ Last(published[i]) \in Terminals
    /\ \A k \in 1..(Len(published[i]) - 1) : published[i][k] \notin Terminals
    /\ Before(published[i], "PROCESSING", Last(published[i]))

\* C6: once any of the three handled signals has reached a daemon whose
\* capture loop is running (status channel open), the daemon eventually exits
\* with code 0 having published PROCESSING and then exactly one of COPIED,
\* FAILED, NO_AUDIO -- unless the upload call does not return (it crashes).
C6_StopLiveness ==
    \A i \in Inv :
        (signalled[i] /\ InCaptureLoop(i) /\ g_status_file[i])
            ~> \/ mpc[i] = "crashed"
               \/ mpc[i] = "exited" /\ child_exit[i] = 0 /\ FinishedOnce(i)

C6_Witness ==
    \E i \in Inv :
        /\ signalled[i] /\ mpc[i] = "exited" /\ child_exit[i] = 0
        /\ FinishedOnce(i) /\ Last(published[i]) = "COPIED"
        /\ "MAX_TIME" \notin Range(published[i])

\* C7: MAX_TIME is written only with more than MAX_RECORDING_TIME seconds
\* elapsed and only on leaving the capture loop (nothing is appended after
\* it); with the ceiling exceeded and no stop signal the capture thread does
\* write it, and PROCESSING follows it without any signal being needed.
C7_MaxTimeState ==
    \A i \in Inv :
        "MAX_TIME" \in Range(published[i]) =>
            /\ elapsed[i] > 300
            /\ rpc[i] \in {"r_close", "done"}

C8_NoDataState ==
    \A i \in Inv :
        (mpc[i] = "m_cleanup" /\ g_audio_buffer[i].size = 0) =>
            /\ uploads[i] = 0
            /\ g_status_file[i] =>
                 (published[i] # <<>> /\ Last(published[i]) = "NO_AUDIO")

C8_NoDataStep ==
    \A i \in Inv :
        /\ (mpc[i] = "m_check_audio" /\ g_audio_buffer[i].size = 0
            /\ mpc'[i] # mpc[i]) =>
               (mpc'[i] = "m_cleanup" /\ uploads'[i] = 0)
        /\ (mpc[i] = "m_cleanup" /\ g_audio_buffer[i].size = 0
            /\ mpc'[i] # mpc[i]) =>
               /\ mpc'[i] = "exited" /\ child_exit'[i] = 0
               /\ uploads'[i] = 0 /\ published'[i] = published[i]

C8_NoData == [] C8_NoDataState /\ [][C8_NoDataStep]_vars

C8_Witness ==
    \E i \in Inv :
        /\ mpc[i] = "exited" /\ child_exit[i] = 0 /\ uploads[i] = 0
        /\ published[i] # <<>> /\ Last(published[i]) = "NO_AUDIO"
        /\ "READY" \in Range(published[i])

DeviceFailed(i) == "ERROR: Audio device failed" \in Range(published[i])

\* C9 (as claimed): when both device opens fail, RECORDING is never
\* published, no bytes are captured, and the daemon exits with code 0.
C9_DeviceFatal ==
    \A i \in Inv :
        DeviceFailed(i) =>
            /\ "RECORDING" \notin Range(published[i])
            /\ mpc[i] # "exited" => g_audio_buffer[i].size = 0
            /\ mpc[i] = "exited" => child_exit[i] = 0

StatusNames ==
    {"CONNECTING", "READY", "RECORDING", "PROCESSING", "UPLOADING", "COPIED",
     "FAILED", "NO_AUDIO", "MAX_TIME", "ERROR"}

\* C10 (as claimed): the STATUS field of every record in the status channel,
\* the text before the first '|', is one of the ten status names.
C10_StatusField ==
    \A i \in Inv :
        status_file[i] # <<>> =>
            \E name \in StatusNames : StatusField(status_file[i]) = <<name>>

\* no thread of the daemon is inside update_status
StatusQuiet(i) == \A t \in Threads : ucall[i][t] = NoCall

\* the file holds exactly the record of this status
HoldsRecordOf(file, status) ==
    /\ Len(file) = 8
    /\ StatusField(file) = <<status>>
    /\ {k \in 1..Len(file) : file[k] = "\n"} = {8}

\* C11 (as claimed): whenever every update_status call made so far has
\* completed, the status file holds exactly one record, that of the status
\* printed last, whatever the interleaving of the calling threads.
C11_LastWriteWins ==
    \A i \in Inv :
        (g_status_file[i] /\ StatusQuiet(i) /\ published[i] # <<>>) =>
            HoldsRecordOf(status_file[i], Last(published[i]))

\* the pid file is present and names the running daemon of invocation i
NamesLive(i) ==
    pidfile.exists /\ pidfile.content = <<ChildPid(i)>> /\ Running(i)

\* main has written PROCESSING and the daemon has not ended yet
PastCapture(i) ==
    mpc[i] \in {"m_set_stop", "m_join_monitor", "m_check_audio", "m_transcribe",
                "m_cleanup"}

\* C12 (as claimed): the pid file is present and names a live process exactly
\* while a daemon is recording: it never names a live daemon that is past
\* capture, and no daemon is in its capture loop while the file is absent.
C12_PresentIffRecording ==
    \A i \in Inv :
        /\ NamesLive(i) => ~PastCapture(i)
        /\ InCaptureLoop(i) => NamesLive(i)

\* C13 (as claimed): once the daemon has exited cleanly, no pid file naming it
\* remains, however the forking parent and the daemon interleave.
C13_IdentityCleanup ==
    \A i \in Inv :
        (mpc[i] = "exited" /\ child_exit[i] = 0) =>
            ~(pidfile.exists /\ pidfile.content = <<ChildPid(i)>>)

\* the upload failed: transport error, HTTP status outside 2xx, or a body
\* without the text marker
UploadFailed(r) ==
    \/ r.res # "CURLE_OK"
    \/ r.http \notin 200..299
    \/ r.data # NULL /\ StrStr(r.data[1], TextMarker) = 0

\* C14 (as claimed): after a failed upload the call signals no result and the
\* session publishes FAILED, never COPIED, and the clipboard is not written.
C14_FailureCollapse ==
    \A i \in Inv :
        (curl[i] # NoResponse /\ UploadFailed(curl[i])
         /\ mpc[i] \in {"m_cleanup", "exited"}) =>
            /\ transcription[i] = NULL
            /\ clipboard[i] = <<>>
            /\ published[i] # <<>> => Last(published[i]) = "FAILED"

\* C15 (as claimed): JSON-escaping a text over the alphabet, embedding it as
\* the text field of a response body and running the extraction gives back
\* exactly the text.
C15_RoundTrip ==
    scan_pc = "scanned" => scan_result = Ptr(text)

\* C16: a foreground process that ends returns 0 or 1 and a daemon that ends
\* returns 0 (after COPIED, FAILED, NO_AUDIO, also after a device failure);
\* the stop path and the forking parent return 0; 1 is returned only by an
\* invocation that forked no daemon (no API key, or fork failed), so that no
\* thread of it ever ran.
C16_ExitCodes ==
    \A i \in Inv :
        /\ exit_code[i] \in {-1, 0, 1}
        /\ child_exit[i] \in {-1, 0}
        /\ ppc[i] = "exited" => exit_code[i] \in {0, 1}
        /\ mpc[i] = "exited" =>
             /\ child_exit[i] = 0
             /\ published[i] # <<>> => Last(published[i]) \in Terminals
        /\ (ppc[i] = "exited" /\ check_result[i] = "live") => exit_code[i] = 0
        /\ (ppc[i] = "exited" /\ mpc[i] # "none") => exit_code[i] = 0
        /\ exit_code[i] = 1 =>
             /\ mpc[i] = "none" /\ rpc[i] = "none" /\ kpc[i] = "none"
             /\ check_result[i] \in {"absent", "stale"}
             /\ g_audio_buffer[i] = NoBuffer /\ published[i] = <<>>

C16_Witness ==
    \E i \in Inv :
        /\ mpc[i] = "exited" /\ child_exit[i] = 0
        /\ ppc[i] = "exited" /\ exit_code[i] = 0
        /\ published[i] # <<>> /\ Last(published[i]) = "FAILED"

\* main is past pthread_join(g_record_thread)
PastJoin(i) ==
    mpc[i] \in {"m_processing", "m_set_stop", "m_join_monitor", "m_check_audio",
                "m_transcribe", "m_cleanup", "exited", "crashed"}

\* C17: the audio buffer changes only in steps of the capture thread taken
\* while main is still before or in the join (and when main frees it at
\* cleanup); once main is past the join, and whenever PROCESSING has been
\* published, the capture thread has returned.
C17_HandoffState ==
    \A i \in Inv :
        (PastJoin(i) \/ "PROCESSING" \in Range(published[i])) => rpc[i] = "done"

C17_HandoffStep ==
    \A i \in Inv :
        g_audio_buffer'[i] # g_audio_buffer[i] =>
            \/ /\ rpc[i] \in {"r_params", "r_body"} /\ rpc'[i] # rpc[i]
               /\ mpc[i] \in {"m_create_monitor", "m_join_record"}
               /\ mpc'[i] = mpc[i] /\ kpc'[i] = kpc[i]
            \/ mpc[i] = "m_cleanup" /\ mpc'[i] = "exited" /\ rpc[i] = "done"
            \/ ppc'[i] = "gone"

C17_Handoff == [] C17_HandoffState /\ [][C17_HandoffStep]_vars

C17_Witness ==
    \E i \in Inv :
        /\ mpc[i] = "m_transcribe" /\ rpc[i] = "done"
        /\ g_audio_buffer[i].size = MaxFrames * BUFFER_SIZE * 2
        /\ "PROCESSING" \in Range(published[i])

\* C18 (as claimed): the capture thread is started before the monitor thread,
\* and the audio buffer is initialised by the time the monitor thread has
\* launched the visualizer.
C18_StartOrdering ==
    \A i \in Inv :
        /\ kpc[i] # "none" => rpc[i] # "none"
        /\ (Running(i) /\ viz_launched[i]) => g_audio_buffer[i].data # NULL

\* C19 (as claimed): when a session that reached its capture loop (READY was
\* published) has published PROCESSING, the stop flag is set.
C19_FlagBeforeProcessing ==
    \A i \in Inv :
        ("READY" \in Range(published[i]) /\ "PROCESSING" \in Range(published[i]))
            => g_stop_recording[i] = 1

\* C20 (as claimed): a failed read whose recovery succeeds lets the loop
\* continue; after a failed recovery the capture thread leaves the loop at
\* once, keeping the bytes buffered so far, and closes the device.
C20_ReadErrorStep ==
    \A i \in Inv :
        (rpc[i] = "r_loop" /\ rpc'[i] # rpc[i]) =>
            /\ (frames[i] < 0) =>
                 (rpc'[i] = "r_close" /\ g_audio_buffer'[i] = g_audio_buffer[i])
            /\ (frames[i] = 0 /\ g_stop_recording[i] = 0) => rpc'[i] = "r_body"

C20_ReadError == [][C20_ReadErrorStep]_vars

\* C21: two daemons can be in their capture loops at the same time, and when
\* they are, neither invocation took the stop path: each read the pid file as
\* absent (or stale), found no live pid, sent no signal and went on as owner.
C21_TwoOwners ==
    \A i, j \in Inv :
        (i # j /\ InCaptureLoop(i) /\ InCaptureLoop(j)) =>
            /\ check_result[i] \in {"absent", "stale"} \/ existing_pid[i] = 0
            /\ check_result[j] \in {"absent", "stale"} \/ existing_pid[j] = 0
            /\ sent[i] = <<>> /\ sent[j] = <<>>

\* both invocations read the file as absent, both daemons capture
C21_Witness ==
    \E i, j \in Inv :
        /\ i # j
        /\ check_result[i] = "absent" /\ check_result[j] = "absent"
        /\ rpc[i] = "r_body" /\ rpc[j] = "r_body"
        /\ capture_handle[i] /\ capture_handle[j]

\* the sizes of the appends, all of them or the stored ones only
RECURSIVE SumSizes(_, _)
SumSizes(log, storedOnly) ==
    IF log = <<>> THEN 0
    ELSE SumSizes(Tail(log), storedOnly)
         + (IF storedOnly /\ ~Head(log).stored THEN 0 ELSE Head(log).size)

\* c is initial times a power of two
RECURSIVE IsDoubled(_, _)
IsDoubled(c, initial) ==
    \/ c = initial
    \/ c > initial /\ c % 2 = 0 /\ IsDoubled(c \div 2, initial)

\* C22 as stated: after every sequence of appends the length of the buffer is
\* the sum of the appended sizes
C22_LengthIsSum ==
    buffer # NoBuffer => buffer.size = SumSizes(appended, FALSE)

C22_BufferState ==
    buffer # NoBuffer =>
        /\ buffer.size = SumSizes(appended, TRUE)
        /\ buffer.size <= buffer.capacity
        /\ IsDoubled(buffer.capacity, buffer_initial)

C22_BufferStep ==
    (buffer # NoBuffer /\ appended' # appended) =>
        /\ buffer'.capacity >= buffer.capacity
        /\ Last(appended').stored => buffer'.size = buffer.size + Last(appended').size
        /\ ~Last(appended').stored => buffer' = buffer

\* What holds of the buffer: its length is the sum of the sizes of the appends
\* whose reallocation (where one was needed) succeeded, an append whose
\* reallocation fails leaves the buffer as it was, length <= capacity after
\* every append, capacity never decreases, and capacity is the initial
\* capacity times a power of two.
C22_Buffer == [] C22_BufferState /\ [][C22_BufferStep]_vars

\* an append that took more than one doubling, every append stored
C22_Witness ==
    /\ buffer # NoBuffer
    /\ appended # <<>>
    /\ \A k \in 1..Len(appended) : appended[k].stored
    /\ buffer.capacity >= 4 * buffer_initial
    /\ buffer.size > 2 * buffer_initial

\* UPLOADING or a terminal status was written
LateStatus(i) == Range(published[i]) \cap ({"UPLOADING"} \cup Terminals) # {}

C23_FinalState ==
    \A i \in Inv :
        /\ LateStatus(i) =>
             /\ kpc[i] = "done" /\ rpc[i] = "done"
             /\ mpc[i] \in {"m_transcribe", "m_cleanup", "exited", "crashed"}
        /\ (mpc[i] = "exited" /\ published[i] # <<>>) =>
             /\ Last(published[i]) \in Terminals
             /\ status_file[i] # <<>>
             /\ StatusField(status_file[i]) = <<Last(published[i])>>

C23_FinalStep ==
    \A i \in Inv :
        (published[i] # <<>> /\ Last(published[i]) \in Terminals) =>
            \/ published'[i] = published[i] /\ status_file'[i] = status_file[i]
            \/ published'[i] = <<>> /\ mpc'[i] = "none"

\* C23: UPLOADING and the terminal statuses are written only after the
\* status-broadcast thread (and the capture thread) has returned; once
\* COPIED, FAILED or NO_AUDIO is written no further status record is written
\* for that session; and when the daemon returns from main the last record
\* written, which the status file holds, is one of those three.
C23_TerminalFinal == [] C23_FinalState /\ [][C23_FinalStep]_vars

\* a session in which the status-broadcast thread wrote, ended by COPIED
C23_Witness ==
    \E i \in Inv :
        /\ mpc[i] = "exited" /\ kpc[i] = "done"
        /\ viz_launched[i]
        /\ published[i] # <<>> /\ Last(published[i]) = "COPIED"
        /\ Before(published[i], "RECORDING", "UPLOADING")

====
